---- MODULE Spec2Model ----
(***************************************************************************)
(* Model of ompl::base::Constraint (Newton projection, distance,           *)
(* isSatisfied) and of ompl::base::NullspaceStateSpace::traverseManifold.  *)
(*                                                                         *)
(* Ambient points are coordinates on a one-dimensional grid, together with *)
(* two non-finite points: NaNPt (a state holding a NaN coordinate) and      *)
(* NaNAll (the state whose every coordinate is NaN).                       *)
(* Distances and residual norms are naturals or NaN; every comparison on   *)
(* them follows IEEE-754: a comparison with NaN is false.                  *)
(*                                                                         *)
(* The residual function and the Jacobian of a Constraint are supplied by  *)
(* the concrete constraint (Constraint::function is abstract), so the      *)
(* residual norm is a map fixed at construction (resid) and the outcome of *)
(* a linear solve with the Jacobian is drawn from the ambient points.      *)
(***************************************************************************)
EXTENDS Integers, Sequences, FiniteSets

\* ---------------------------------------------------------------- bounds
MaxCoord == 3      \* finite ambient coordinates are 0..MaxCoord
MaxDelta == 2      \* delta_ is drawn from 1..MaxDelta
MaxTol == 1        \* projectionTolerance_ is drawn from 0..MaxTol
MaxIter == 2       \* projectionMaxIterations_ is drawn from 0..MaxIter
MaxX == 1          \* Newton iterates of project are 0..MaxX or NaNPt
MaxSteps == 4      \* cap on the loop iterations of one traversal
JacDim == 2        \* the ambient dimension n_ in the numeric Jacobian
MaxMag == 3        \* coordinates given to the Jacobian are -MaxMag..MaxMag

\* ------------------------------------------------------- numeric domain
NaN == -1          \* the not-a-number value of a double
NaNPt == -1        \* a state with a non-finite coordinate
NaNAll == -3       \* the state whose every coordinate is NaN
Stale == -2        \* a state pointer left in the collector by its owner
Epsilon == 1       \* std::numeric_limits<double>::epsilon(), the grid unit

Points == 0..MaxCoord
NonFinite == {NaNPt, NaNAll}
AllPts == Points \cup NonFinite
XPts == (0..MaxX) \cup {NaNPt}

\* IEEE-754 comparisons: false as soon as one operand is NaN.
FLt(a, b) == a # NaN /\ b # NaN /\ a < b
FLe(a, b) == a # NaN /\ b # NaN /\ a <= b
FGt(a, b) == a # NaN /\ b # NaN /\ a > b
FGe(a, b) == a # NaN /\ b # NaN /\ a >= b

Abs(i) == IF i < 0 THEN -i ELSE i

allFinite(x) == x \notin NonFinite

VARIABLES
    \* the Constraint's configuration and the collaborators
    projectionTolerance, projectionMaxIterations, resid, delta, invalid,
    \* control position of the running call
    pc,
    \* traverseManifold
    from, to, interp, hasList, stateList, n, dist, previous, scratch, there,
    exitBy, result, iters, satCalls, jacCalls, validCalls,
    \* the states the call allocates, and the caller's own from and to
    live, freeCount, listObjs, prevObj, scratchObj, fromNow, toNow,
    \* Constraint::project
    x0, x, f, iter, updates, projResult, reproj,
    \* Constraint::jacobian (numeric): the point, the columns done, and the
    \* factor applied to sqrt(epsilon) in each column's step h
    jx, jcol, hscale,
    \* NullspaceStateSpace::checkSpace: the dynamic type of si's state space
    \* and whether the call threw
    spaceKind, threw,
    \* two callers sharing one Constraint: the call that is running (pc is
    \* its position) and the position of the call that is waiting
    running, pcOther

memVars == <<live, freeCount, listObjs, prevObj, scratchObj, fromNow, toNow>>
cfgVars == <<projectionTolerance, projectionMaxIterations, resid, delta, invalid>>
travVars == <<from, to, interp, hasList, stateList, n, dist, previous, scratch,
              there, exitBy, result, iters, satCalls, validCalls, memVars>>
projVars == <<x0, x, f, iter, updates, projResult, reproj>>
jacVars == <<jx, jcol, hscale>>
chkVars == <<spaceKind, threw>>
schedVars == <<running, pcOther>>
otherVars == <<jacVars, chkVars, schedVars>>
vars == <<cfgVars, pc, travVars, projVars, jacCalls, otherVars>>
\* ------------------------------------------------------------ Constraint
\* Line 76: the factor applied to sqrt(epsilon) for a coordinate xj.
StepScale(xj) == IF xj >= 1 THEN xj ELSE 1

\* Lines 73-99: one column of the numeric Jacobian.
JacobianColumn ==
    /\ jcol < JacDim
    /\ hscale' = Append(hscale, StepScale(jx[jcol + 1]))
    /\ jcol' = jcol + 1
    /\ UNCHANGED <<cfgVars, pc, travVars, projVars, jacCalls, jx, chkVars, schedVars>>

\* Constraint::distance: the norm of the residual at x.
constraintDistance(xx) == resid[xx]

\* Constraint::isSatisfied.
isSatisfied(xx) == allFinite(xx) /\ FLe(constraintDistance(xx), projectionTolerance)

\* distance evaluating the residual into the vector a running project uses.
ProjectResidualOverwritten(pf, xx) == constraintDistance(xx)

\* Lines 123-125: distance evaluates the residual into a vector of its own,
\* so the vector f of a running project (line 106) keeps its value pf.
ProjectResidualAfterDistance(pf, xx) == pf

\* The first conjunct with >= in place of >.
AtOrAboveTolerance(fn) == FGe(fn, projectionTolerance)

\* First conjunct of the while condition of project: f.norm() > tolerance.
AboveTolerance(fn) == FGt(fn, projectionTolerance)

\* The while condition of project, with the value iter held before the test.
ProjectLoopCond(fn, it) == AboveTolerance(fn) /\ it < projectionMaxIterations

\* iter after one evaluation of the while condition: && short-circuits, so
\* iter++ runs only when the residual is above the tolerance. iter is an
\* unsigned int; it stays below MaxIter + 2, far from wrapping.
IterAfterTest(fn, it) == IF AboveTolerance(fn) THEN it + 1 ELSE it

\* The value project returns.
ProjectReturnValue(it) == it <= projectionMaxIterations

\* x -= j.colPivHouseholderQr().solve(f): any point, but a NaN coordinate
\* of x stays NaN under subtraction.
NewtonResults(xx) == IF xx = NaNPt THEN {NaNPt} ELSE XPts

ProjectBegin(xin, again) ==
    /\ x0' = xin
    /\ x' = xin
    /\ iter' = 0
    /\ f' = constraintDistance(xin)
    /\ updates' = 0
    /\ jacCalls' = 0
    /\ reproj' = again
    /\ pc' = "project"
    /\ UNCHANGED <<cfgVars, otherVars, travVars, projResult>>

\* A caller invokes project on a point.
ProjectEnter == pc = "idle" /\ \E xin \in XPts : ProjectBegin(xin, FALSE)

\* One pass of the Newton loop: the condition holds, the body runs.
ProjectStep ==
    /\ pc = "project"
    /\ ProjectLoopCond(f, iter)
    /\ iter' = IterAfterTest(f, iter)
    /\ jacCalls' = jacCalls + 1
    /\ updates' = updates + 1
    /\ \E nx \in NewtonResults(x) : x' = nx /\ f' = constraintDistance(nx)
    /\ UNCHANGED <<cfgVars, otherVars, travVars, pc, x0, projResult, reproj>>

\* The condition fails; project returns.
ProjectExit ==
    /\ pc = "project"
    /\ ~ProjectLoopCond(f, iter)
    /\ iter' = IterAfterTest(f, iter)
    /\ projResult' = ProjectReturnValue(IterAfterTest(f, iter))
    /\ pc' = "projected"
    /\ UNCHANGED <<cfgVars, otherVars, travVars, x0, x, f, updates, jacCalls, reproj>>

\* The caller projects the output of a successful project once more.
ProjectAgain ==
    /\ pc = "projected"
    /\ projResult
    /\ ~reproj
    /\ ProjectBegin(x, TRUE)

\* --------------------------------------------------- ambient state space
\* RealVectorStateSpace::distance.
distance(a, b) == IF ~allFinite(a) \/ ~allFinite(b) THEN NaN ELSE Abs(a - b)

\* StateSpace::validSegmentCount: the segments of length delta between two
\* points; the conversion of a NaN distance to int is undefined.
validSegmentCount(a, b) ==
    IF distance(a, b) = NaN THEN {0, 1}
    ELSE {(distance(a, b) + delta - 1) \div delta}

\* RealVectorStateSpace::interpolate(a, b, delta / d), where d is the
\* distance between a and b: every coordinate is a[i] + (b[i] - a[i]) * t,
\* which is NaN in every coordinate when t is.
interpolate(a, b, d) ==
    IF ~allFinite(a) \/ ~allFinite(b) \/ d = NaN THEN NaNAll
    ELSE a + ((b - a) * delta) \div d

\* StateValidityChecker::isValid.
isValid(s) == s \notin invalid

\* ----------------------------------------------------------- checkSpace
\* The dynamic types a SpaceInformation's state space can have; "null" is a
\* SpaceInformation without a state space.
SpaceKinds == {"NullspaceStateSpace", "DerivedFromNullspaceStateSpace",
               "ProjectedStateSpace", "RealVectorStateSpace", "null"}

\* The types that are a NullspaceStateSpace.
NullspaceKinds == {"NullspaceStateSpace", "DerivedFromNullspaceStateSpace"}

\* Line 54 with the test inverted.
CastFailsInverted(kind) == kind \in NullspaceKinds

\* Line 54: dynamic_cast<NullspaceStateSpace *> yields nullptr.
CastFails(kind) == kind \notin NullspaceKinds

\* Lines 52-57.
CheckSpace ==
    /\ pc = "idle"
    /\ \E kind \in SpaceKinds :
         /\ spaceKind' = kind
         /\ threw' = CastFails(kind)
    /\ pc' = "checked"
    /\ UNCHANGED <<cfgVars, travVars, projVars, jacCalls, jacVars, schedVars>>

\* ----------------------------------------------------- traverseManifold
\* State objects. from and to belong to the caller; the call clones from into
\* previous, allocates scratch, and clones one state per path element.
FromObj == <<"from", 0>>
ToObj == <<"to", 0>>
StaleObj == <<"stale", 0>>
NoObj == <<"none", 0>>
ScratchObject == <<"scratch", 0>>
CloneObj(k) == <<"clone", k>>
ScratchObjs == {<<"previous", 0>>, <<"scratch", 0>>}

\* Line 86 with previous pointing at from instead of at a clone of it.
PreviousAliasesFrom == FromObj

\* Line 86: previous is a clone of from.
PreviousObject == <<"previous", 0>>

\* Lines 135-136 with freeState(previous) left out.
FreedAtExitLeak(p, sc) == {sc}

\* Lines 135-136: the states freed after the loop.
FreedAtExit(p, sc) == {p, sc}

\* A write of value v through a pointer to object o, seen from object target
\* whose value is cur.
ValueAfterWrite(target, cur, o, v) == IF o = target THEN v ELSE cur

\* The allocations that are states of the call itself, not path elements.
Allocated(objs) == objs \ {FromObj, ToObj}

\* The collector after lines 66-70 with clear() left out.
ListAfterEntryNoClear(list, fr) == Append(list, fr)

\* The collector after lines 66-70.
ListAfterEntry(list, fr) == <<fr>>

\* Line 72 with the comparison slipped.
ZeroSegmentsNever(nn) == nn < 0

\* Line 72: no segment between from and to.
ZeroSegments(nn) == nn = 0

\* Line 75 with the check of from left out.
StartRejectedNever(fr) == FALSE

\* Line 75: from does not satisfy the constraint.
StartRejected(fr) == ~isSatisfied(fr)

\* The while condition, negated: dist < delta + epsilon.
ReachedTarget(d) == FLt(d, delta + Epsilon)

\* Line 107: previous - lu.solve(f) + kernel * (trial - previous). The
\* residual and Jacobian are the constraint's, so from finite operands any
\* point may come out, a non-finite one included; the product with a trial
\* point that is NaN in every coordinate is NaN in every coordinate.
CorrectedResults(prev, trial) ==
    IF ~allFinite(prev) \/ ~allFinite(trial) THEN {NaNAll} ELSE AllPts

\* Line 110 with the interpolate flag ignored.
ValidIgnoringInterpolate(s) == isValid(s)

\* Line 110.
ValidOrInterpolating(s) == interp \/ isValid(s)

\* Line 113.
Deviated(prev, s) == FGt(distance(prev, s), 2 * delta)

\* Line 125 with > in place of >=.
DivergedOnlyWhenFarther(newDist, d) == FGt(newDist, d)

\* Line 125.
Diverged(newDist, d) == FGe(newDist, d)

\* Line 132 with the test of there left out.
AppendsTargetAlways(th, hl) == hl

\* Line 132: whether the copy of to is appended.
AppendsTarget(th, hl) == th /\ hl

\* Line 137: the value returned after the loop.
TraverseReturnValue(th) == th

\* Lines 59-92: entry, up to the first evaluation of the loop condition.
TraverseEnter ==
    /\ pc = "idle"
    /\ \E fr \in AllPts, t \in AllPts, ip \in BOOLEAN, hl \in BOOLEAN :
         \E nn \in validSegmentCount(fr, t) :
           /\ from' = fr /\ to' = t /\ interp' = ip /\ hasList' = hl
           /\ n' = nn
           /\ stateList' = IF hl THEN ListAfterEntry(stateList, fr) ELSE stateList
           /\ listObjs' = IF hl THEN ListAfterEntry(listObjs, CloneObj(1)) ELSE listObjs
           /\ fromNow' = fr /\ toNow' = t
           /\ IF ZeroSegments(nn)
                THEN /\ result' = TRUE
                     /\ pc' = "returned"
                     /\ live' = IF hl THEN {CloneObj(1)} ELSE {}
                     /\ UNCHANGED <<satCalls, dist, previous, scratch, prevObj, scratchObj, f>>
                ELSE /\ satCalls' = satCalls + 1
                     /\ f' = ProjectResidualAfterDistance(f, fr)
                     /\ IF StartRejected(fr)
                          THEN /\ result' = FALSE
                               /\ pc' = "returned"
                               /\ live' = IF hl THEN {CloneObj(1)} ELSE {}
                               /\ UNCHANGED <<dist, previous, scratch, prevObj, scratchObj>>
                          ELSE /\ dist' = distance(fr, t)
                               /\ previous' = fr
                               /\ scratch' = Stale
                               /\ prevObj' = PreviousObject
                               /\ scratchObj' = ScratchObject
                               /\ live' = (IF hl THEN {CloneObj(1)} ELSE {})
                                             \cup Allocated({PreviousObject, ScratchObject})
                               /\ pc' = "loop"
                               /\ UNCHANGED result
    /\ UNCHANGED <<cfgVars, otherVars, x0, x, iter, updates, projResult, reproj,
                   there, exitBy, iters, jacCalls, validCalls, freeCount>>

\* Line 95 evaluates to false: the walk has reached the target.
TraverseReach ==
    /\ pc = "loop"
    /\ ReachedTarget(dist)
    /\ there' = TRUE
    /\ exitBy' = "reached"
    /\ pc' = "exit"
    /\ UNCHANGED <<cfgVars, otherVars, projVars, from, to, interp, hasList, stateList, n,
                   dist, previous, scratch, result, iters, satCalls, jacCalls,
                   validCalls, memVars>>

\* Lines 95-130: one pass of the loop body.
TraverseStep ==
    /\ pc = "loop"
    /\ ~ReachedTarget(dist)
    /\ iters < MaxSteps
    /\ there' = FALSE
    /\ iters' = iters + 1
    /\ jacCalls' = jacCalls + 1
    /\ validCalls' = IF interp THEN validCalls ELSE validCalls + 1
    /\ \E c \in CorrectedResults(previous, interpolate(previous, to, dist)) :
         /\ scratch' = c
         /\ IF ~ValidOrInterpolating(c) \/ Deviated(previous, c)
              THEN /\ exitBy' = IF ~ValidOrInterpolating(c) THEN "invalid" ELSE "deviated"
                   /\ pc' = "exit"
                   /\ fromNow' = ValueAfterWrite(FromObj, fromNow, scratchObj, c)
                   /\ toNow' = ValueAfterWrite(ToObj, toNow, scratchObj, c)
                   /\ UNCHANGED <<stateList, dist, previous, listObjs, live>>
              ELSE /\ stateList' = IF hasList THEN Append(stateList, c) ELSE stateList
                   /\ listObjs' = IF hasList
                                     THEN Append(listObjs, CloneObj(Len(listObjs) + 1))
                                     ELSE listObjs
                   /\ live' = IF hasList
                                 THEN live \cup {CloneObj(Len(listObjs) + 1)}
                                 ELSE live
                   /\ IF Diverged(distance(c, to), dist)
                        THEN /\ exitBy' = "diverged"
                             /\ pc' = "exit"
                             /\ fromNow' = ValueAfterWrite(FromObj, fromNow, scratchObj, c)
                             /\ toNow' = ValueAfterWrite(ToObj, toNow, scratchObj, c)
                             /\ UNCHANGED <<dist, previous>>
                        ELSE /\ dist' = distance(c, to)
                             /\ previous' = c
                             /\ fromNow' = ValueAfterWrite(FromObj,
                                    ValueAfterWrite(FromObj, fromNow, scratchObj, c), prevObj, c)
                             /\ toNow' = ValueAfterWrite(ToObj,
                                    ValueAfterWrite(ToObj, toNow, scratchObj, c), prevObj, c)
                             /\ UNCHANGED <<exitBy, pc>>
    /\ UNCHANGED <<cfgVars, otherVars, projVars, from, to, interp, hasList, n, result, satCalls,
                   freeCount, prevObj, scratchObj>>

\* Lines 132-137.
TraverseExit ==
    /\ pc = "exit"
    /\ stateList' = IF AppendsTarget(there, hasList) THEN Append(stateList, to) ELSE stateList
    /\ listObjs' = IF AppendsTarget(there, hasList)
                      THEN Append(listObjs, CloneObj(Len(listObjs) + 1))
                      ELSE listObjs
    /\ live' = (live \cup (IF AppendsTarget(there, hasList)
                              THEN {CloneObj(Len(listObjs) + 1)} ELSE {}))
                   \ FreedAtExit(prevObj, scratchObj)
    /\ freeCount' = [o \in ScratchObjs \cup {FromObj, ToObj} |->
                        IF o \in FreedAtExit(prevObj, scratchObj)
                          THEN freeCount[o] + 1 ELSE freeCount[o]]
    /\ result' = TraverseReturnValue(there)
    /\ pc' = "returned"
    /\ UNCHANGED <<cfgVars, otherVars, projVars, from, to, interp, hasList, n, dist, previous,
                   scratch, there, exitBy, iters, satCalls, jacCalls, validCalls,
                   prevObj, scratchObj, fromNow, toNow>>

\* ------------------------------------------------------- specifications
IdleTraverse ==
    /\ from = 0 /\ to = 0 /\ interp = FALSE /\ hasList = FALSE
    /\ stateList = <<Stale>> /\ n = 0 /\ dist = 0 /\ previous = 0 /\ scratch = Stale
    /\ there = FALSE /\ exitBy = "none" /\ result = FALSE /\ iters = 0
    /\ satCalls = 0 /\ jacCalls = 0 /\ validCalls = 0
    /\ live = {} /\ freeCount = [o \in ScratchObjs \cup {FromObj, ToObj} |-> 0]
    /\ listObjs = <<StaleObj>> /\ prevObj = NoObj /\ scratchObj = NoObj
    /\ fromNow = 0 /\ toNow = 0

IdleProject ==
    /\ x0 = 0 /\ x = 0 /\ f = 0 /\ iter = 0 /\ updates = 0
    /\ projResult = FALSE /\ reproj = FALSE

IdleJacobian == jx = [j \in 1..JacDim |-> 0] /\ jcol = 0 /\ hscale = <<>>

IdleCheck == spaceKind = "null" /\ threw = FALSE

IdleSched == running = "traverse" /\ pcOther = "idle"

\* A constraint and a validity checker as a traversal sees them: each point
\* is on the manifold (residual norm equal to the tolerance) or off it.
Init ==
    /\ projectionTolerance = MaxTol
    /\ projectionMaxIterations = MaxIter
    /\ resid \in [AllPts -> {MaxTol, MaxTol + 1}]
    /\ delta \in 1..MaxDelta
    /\ invalid \in {{}} \cup {{p} : p \in AllPts}
    /\ pc = "idle"
    /\ IdleTraverse
    /\ IdleProject
    /\ IdleJacobian
    /\ IdleCheck
    /\ IdleSched

Next == TraverseEnter \/ TraverseReach \/ TraverseStep \/ TraverseExit \/ CheckSpace

Spec == Init /\ [][Next]_vars

\* A constraint as project sees it: the residual norm at each point is zero,
\* at the tolerance, just above it, or NaN.
InitProject ==
    /\ projectionTolerance \in 0..MaxTol
    /\ projectionMaxIterations \in 0..MaxIter
    /\ resid \in [XPts -> {0, projectionTolerance, projectionTolerance + 1, NaN}]
    /\ delta = 1
    /\ invalid = {}
    /\ pc = "idle"
    /\ IdleTraverse
    /\ IdleProject
    /\ IdleJacobian
    /\ IdleCheck
    /\ IdleSched

NextProject == ProjectEnter \/ ProjectStep \/ ProjectExit \/ ProjectAgain

SpecProject == InitProject /\ [][NextProject]_vars

\* The numeric Jacobian at a point with coordinates of either sign.
InitJacobian ==
    /\ projectionTolerance = MaxTol
    /\ projectionMaxIterations = MaxIter
    /\ resid = [p \in AllPts |-> 0]
    /\ delta = 1
    /\ invalid = {}
    /\ pc = "idle"
    /\ IdleTraverse
    /\ IdleProject
    /\ jx \in [1..JacDim -> (-MaxMag)..MaxMag]
    /\ jcol = 0
    /\ hscale = <<>>
    /\ IdleCheck
    /\ IdleSched

NextJacobian == JacobianColumn

SpecJacobian == InitJacobian /\ [][NextJacobian]_vars

\* Two callers, each on a thread of its own, use one Constraint: one runs
\* traverseManifold, the other project. The scheduler may pass control from
\* one to the other between any two steps.
Switch ==
    /\ running' = IF running = "traverse" THEN "project" ELSE "traverse"
    /\ pc' = pcOther
    /\ pcOther' = pc
    /\ UNCHANGED <<cfgVars, travVars, projVars, jacCalls, jacVars, chkVars>>

TraverseThread ==
    /\ running = "traverse"
    /\ (TraverseEnter \/ TraverseReach \/ TraverseStep \/ TraverseExit)

ProjectThread ==
    /\ running = "project"
    /\ (ProjectEnter \/ ProjectStep \/ ProjectExit \/ ProjectAgain)

\* The shared constraint: every point is on the manifold but one.
InitConcurrent ==
    /\ projectionTolerance = MaxTol
    /\ projectionMaxIterations = MaxIter
    /\ resid \in {[p \in AllPts |-> IF p = q THEN MaxTol + 1 ELSE MaxTol] : q \in 0..MaxX}
    /\ delta \in 1..MaxDelta
    /\ invalid = {}
    /\ pc = "idle"
    /\ IdleTraverse
    /\ IdleProject
    /\ IdleJacobian
    /\ IdleCheck
    /\ IdleSched

NextConcurrent == TraverseThread \/ ProjectThread \/ Switch

SpecConcurrent == InitConcurrent /\ [][NextConcurrent]_vars

\* ================================================================ claims
BreakExits == {"invalid", "deviated", "diverged"}

\* C1: in a call with a collector whose from and to satisfy the constraint,
\* every point of the returned path satisfies Constraint::isSatisfied.
C1_PathOnManifold ==
    (pc = "returned" /\ hasList /\ isSatisfied(from) /\ isSatisfied(to))
        => \A i \in 1..Len(stateList) : isSatisfied(stateList[i])

\* C2: with a collector, on every outcome the collector's previous contents
\* are gone and its first element is the copy of from.
C2_CollectorStartsWithFrom ==
    (pc = "returned" /\ hasList)
        => /\ Len(stateList) >= 1
           /\ stateList[1] = from
           /\ \A i \in 1..Len(stateList) : stateList[i] # Stale

C2_Witness ==
    pc = "returned" /\ hasList /\ exitBy = "diverged" /\ Len(stateList) >= 3

\* C3 as claimed: an unsatisfied from with a non-zero segment count returns
\* false without Jacobian or validity evaluation, and the collector holds no
\* points on return.
C3_NoPathOnBadStart ==
    (pc = "returned" /\ hasList /\ n # 0 /\ ~isSatisfied(from))
        => /\ ~result
           /\ jacCalls = 0 /\ validCalls = 0
           /\ Len(stateList) = 0

\* C3 as amended: an unsatisfied from with a non-zero segment count returns
\* false without Jacobian or validity evaluation and without walking; the
\* collector, when given, holds exactly the copy of from on return.
C3_OnlyFromOnBadStart ==
    (pc = "returned" /\ n # 0 /\ ~isSatisfied(from))
        => /\ ~result
           /\ jacCalls = 0 /\ validCalls = 0 /\ iters = 0
           /\ (hasList => stateList = <<from>>)

C3_Witness ==
    pc = "returned" /\ hasList /\ n # 0 /\ allFinite(from) /\ ~isSatisfied(from)

\* C4: in a walk (non-zero segment count, satisfied from) the call returns
\* true exactly when the loop was left through its condition, and the copy of
\* to is appended last exactly then; a break returns false and appends nothing.
C4_TrueIffReached ==
    (pc = "returned" /\ n # 0 /\ isSatisfied(from))
        => /\ result <=> exitBy = "reached"
           /\ ~result <=> exitBy \in BreakExits
           /\ hasList =>
                /\ exitBy = "reached" =>
                     Len(stateList) = iters + 2 /\ stateList[Len(stateList)] = to
                /\ exitBy = "diverged" => Len(stateList) = iters + 1
                /\ exitBy \in {"invalid", "deviated"} => Len(stateList) = iters

C4_Witness ==
    pc = "returned" /\ n # 0 /\ hasList /\ result /\ iters >= 2

\* C5: a segment count of 0 returns true with the path <<from>>, whether or
\* not from satisfies the constraint or is valid, and without calling the
\* constraint or the validity checker.
C5_ZeroSegmentsSucceed ==
    (pc = "returned" /\ n = 0)
        => /\ result
           /\ hasList => stateList = <<from>>
           /\ satCalls = 0 /\ jacCalls = 0 /\ validCalls = 0 /\ iters = 0

C5_Witness ==
    pc = "returned" /\ n = 0 /\ hasList /\ allFinite(from)
        /\ ~isSatisfied(from) /\ ~isValid(from)

\* C6: each time the loop continues, the running distance to the target has
\* strictly decreased.
C6_DistStrictlyDecreases ==
    [][(pc = "loop" /\ pc' = "loop") => FLt(dist', dist)]_vars

\* C7: project returns true iff the residual norm is within the tolerance
\* when the loop ends, and false iff the budget is used up with the residual
\* still above the tolerance.
C7_TrueIffWithinTolerance ==
    pc = "projected"
        => /\ projResult <=> FLe(f, projectionTolerance)
           /\ ~projResult <=>
                (updates = projectionMaxIterations /\ FGt(f, projectionTolerance))

\* C8: project performs at most projectionMaxIterations updates, and when no
\* evaluated residual meets the tolerance it returns false after exactly
\* projectionMaxIterations updates. (The loop ends at the first residual that
\* is not above the tolerance, so the last residual f is the only one that can
\* have met it.)
C8_BoundedUpdates ==
    /\ updates <= projectionMaxIterations
    /\ (pc = "projected" /\ ~FLe(f, projectionTolerance))
           => ~projResult /\ updates = projectionMaxIterations

\* C9: whenever project returns true, isSatisfied holds of the resulting point.
C9_ProjectedIsSatisfied ==
    (pc = "projected" /\ projResult) => isSatisfied(x)

\* C10: a point whose residual norm is within the tolerance on entry is
\* returned unchanged with result true and without a Jacobian evaluation; and
\* projecting the output of a successful project changes nothing.
C10_Idempotent ==
    (pc \in {"project", "projected"}
        /\ (reproj \/ FLe(constraintDistance(x0), projectionTolerance)))
        => /\ x = x0
           /\ jacCalls = 0 /\ updates = 0
           /\ pc = "projected" => projResult

C10_Witness ==
    pc = "projected" /\ reproj /\ projResult /\ projectionMaxIterations > 0
        /\ constraintDistance(x0) = projectionTolerance

\* C11: previous and scratch, the states the call allocates for itself, are
\* each freed exactly once on the paths that allocate them and never
\* allocated on the early returns, so that on return the live allocations of
\* the call are exactly the clones held by the output path.
C11_ScratchFreedOnce ==
    pc = "returned"
        => /\ live \cap ScratchObjs = {}
           /\ \A o \in ScratchObjs :
                freeCount[o] = IF exitBy = "none" THEN 0 ELSE 1
           /\ freeCount[FromObj] = 0 /\ freeCount[ToObj] = 0
           /\ live = IF hasList THEN {listObjs[i] : i \in 1..Len(listObjs)} ELSE {}

C11_Witness ==
    pc = "returned" /\ exitBy = "diverged" /\ hasList /\ iters >= 2

\* C12: from and to hold on return the coordinates they held at entry, and
\* every element of the output path is a clone made by the call, distinct
\* from from, to, previous and scratch and from the other elements.
C12_InputsUntouched ==
    pc \in {"loop", "exit", "returned"}
        => /\ fromNow = from /\ toNow = to
           /\ hasList =>
                /\ Len(listObjs) = Len(stateList)
                /\ \A i \in 1..Len(listObjs) :
                     /\ listObjs[i] \notin {FromObj, ToObj, StaleObj, prevObj, scratchObj}
                     /\ \A j \in 1..Len(listObjs) : i # j => listObjs[i] # listObjs[j]

C12_Witness ==
    pc = "returned" /\ hasList /\ result /\ iters >= 2 /\ from # to

\* C13: with interpolate true isValid is never invoked; with interpolate
\* false it is invoked once per pass, every corrected point in the path was
\* judged valid, and a corrected point judged invalid is not recorded and ends
\* the walk with result false.
C13_ValidityOnlyWhenAsked ==
    pc \in {"loop", "exit", "returned"}
        => /\ interp => validCalls = 0 /\ exitBy # "invalid"
           /\ ~interp => validCalls = iters
           /\ (~interp /\ hasList) =>
                \A i \in 2..(Len(stateList) - (IF pc = "returned" /\ result THEN 1 ELSE 0)) :
                    isValid(stateList[i])
           /\ exitBy = "invalid" =>
                /\ ~isValid(scratch)
                /\ pc = "returned" => ~result
                /\ hasList => Len(stateList) = iters

C13_Witness ==
    pc = "returned" /\ ~interp /\ hasList /\ exitBy = "invalid" /\ iters >= 2

Max(a, b) == IF a >= b THEN a ELSE b

\* C14: in every column j of the numeric Jacobian the step is
\* h = sqrt(epsilon) * max(|x_j|, 1), for positive, zero and negative x_j.
C14_StepScaleIsMaxAbs ==
    \A j \in 1..Len(hscale) : hscale[j] = Max(Abs(jx[j]), 1)

\* C15: checkSpace throws iff the state space of the given SpaceInformation
\* is not a NullspaceStateSpace, and otherwise returns with no effect.
C15_ThrowsIffIncompatible ==
    pc = "checked"
        => /\ threw <=> spaceKind \notin NullspaceKinds
           /\ IdleTraverse /\ IdleProject

C15_Witness == pc = "checked" /\ threw /\ spaceKind = "ProjectedStateSpace"

\* C16: the number of passes of the loop never exceeds the segment count n
\* computed at entry (stated for calls whose from and to are finite, where n
\* is defined).
C16_IterationsWithinSegmentCount ==
    (allFinite(from) /\ allFinite(to)) => iters <= n

\* The locals a pass of the loop reads and writes (lines 84-87 and the
\* collector): a pass that leaves them all as they were is followed, under
\* the same constraint and validity checker, by the same pass again.
WalkState == <<previous, scratch, dist, there, stateList>>

\* C17: every call reaches one of its two terminal states; the walk cannot
\* loop forever.  In finite-run form: no pass of the loop comes back to the
\* loop condition with the call's locals exactly as they were before it.
C17_NoPassRepeatsTheWalk ==
    [][(pc = "loop" /\ pc' = "loop") => WalkState' # WalkState]_vars

\* The corrected points of a returned collector: everything after the copy
\* of from, less the copy of to that a successful call appends.
LastCorrected == Len(stateList) - (IF result THEN 1 ELSE 0)

\* C18: in every returned path each recorded corrected point lies within
\* ambient distance 2*delta of the point recorded before it, previous being
\* the last recorded point whenever the loop condition is evaluated; a
\* corrected point farther than 2*delta from previous ends the walk with
\* false and is not recorded.
C18_RecordedWithinTwoDelta ==
    /\ (pc = "loop" /\ hasList) => previous = stateList[Len(stateList)]
    /\ (pc = "returned" /\ hasList /\ n # 0 /\ isSatisfied(from))
          => /\ \A i \in 2..LastCorrected :
                    FLe(distance(stateList[i - 1], stateList[i]), 2 * delta)
             /\ exitBy = "deviated"
                    => /\ ~result
                       /\ FGt(distance(previous, scratch), 2 * delta)
                       /\ Len(stateList) = iters

\* C19: a corrected point is recorded iff it passed the validity and the
\* deviation check, and it is recorded before the divergence check: the
\* point on which a call diverged is the last of its path, a point that
\* failed validity or deviation is not in it, and every point of the path
\* of a failed call, other than possibly its last one, is strictly closer
\* to `to` than the point before it.
C19_RecordedBeforeDivergence ==
    (pc = "returned" /\ hasList /\ n # 0 /\ isSatisfied(from))
        => /\ \A i \in 2..LastCorrected :
                  /\ ValidOrInterpolating(stateList[i])
                  /\ ~Deviated(stateList[i - 1], stateList[i])
           /\ exitBy \in {"invalid", "deviated"}
                  => /\ Len(stateList) = iters
                     /\ ~ValidOrInterpolating(scratch) \/ Deviated(previous, scratch)
           /\ exitBy = "diverged"
                  => /\ Len(stateList) = iters + 1
                     /\ stateList[Len(stateList)] = scratch
                     /\ Diverged(distance(scratch, to), dist)
           /\ ~result
                  => \A i \in 2..(Len(stateList) - 1) :
                        FLt(distance(stateList[i], to), distance(stateList[i - 1], to))

C19_Witness ==
    /\ pc = "returned" /\ hasList /\ ~result /\ exitBy = "diverged"
    /\ Len(stateList) >= 3
    /\ distance(stateList[Len(stateList)], to)
          = distance(stateList[Len(stateList) - 1], to)

\* C20: a traversal and a projection running concurrently against one
\* Constraint do not interfere: no step writes the constraint's
\* configuration, a step of the traversal leaves every variable of the
\* projection as it was and a step of the projection every variable of the
\* traversal, and the residual the projection holds is always the
\* constraint's residual at its own iterate, as when it runs alone.
C20_NoInterference ==
    [][/\ cfgVars' = cfgVars
       /\ (running = "traverse" /\ running' = running) => projVars' = projVars
       /\ (running = "project" /\ running' = running) => travVars' = travVars
       /\ (running' = "project" /\ pc' = "project") => f' = constraintDistance(x')
       /\ (running' = "traverse" /\ pcOther' = "project") => f' = constraintDistance(x')]_vars

C20_Witness ==
    /\ running = "traverse" /\ pc = "exit" /\ iters >= 2
    /\ pcOther = "project" /\ updates >= 1 /\ f # constraintDistance(from)
====
